---- MODULE Spec2Model ----
(***************************************************************************)
(* State-machine model of the neuron-descriptions toolkit:                 *)
(*   lv/models/featurizers.py   Featurizer.map, PretrainedPyramidFeaturizer*)
(*   src/milan/classifiers.py   ImageClassifier.fit / predict / accuracy / *)
(*                              accuracies                                 *)
(*   lv/models/lms.py           LanguageModel.predict / fit, lm()          *)
(*   run_cnn_ablations.py       the ablation driver                        *)
(*                                                                         *)
(* Tensors are modelled by what the code reads of them.  An image is an    *)
(* identifier (its content), a mask is a row of MaskWidth pixels (one      *)
(* spatial axis; bilinear resampling is separable, so the second axis      *)
(* repeats the first).  A feature vector is run-length encoded: a sequence *)
(* of runs [n, v], n consecutive entries of value v, and a value is the    *)
(* fraction [num, den]; den = 0 is the NaN that 0/0 produces.              *)
(***************************************************************************)
EXTENDS Integers, Sequences, FiniteSets, TLC

VARIABLES fz, fwd, mp, clf, net, fit, lm, fac, drv

vars == <<fz, fwd, mp, clf, net, fit, lm, fac, drv>>

\* Python's None: NoneStr where a string is expected (a device, a config);
\* an optional list or tensor is None or Some(x).
NoneStr == "None"
None == [some |-> FALSE]
Some(x) == [some |-> TRUE, v |-> x]

(***************************************************************************)
(* Bounds of the model.                                                    *)
(***************************************************************************)
MaxBatch == 3        \* images per forward() call
MaskWidth == 3       \* pixels of a mask at input resolution
MaxDataset == 3      \* samples of a dataset given to map / predict
MaxBatchSize == 3    \* batch_size argument
NumClasses == 2      \* classes of the classifier
MaxEpochs == 3       \* max_epochs argument of fit
MaxPatience == 2     \* patience argument of fit
MaxLoaderLen == 2    \* batches of the train and of the validation loader
MaxLoss == 1         \* validation losses are 0..MaxLoss
MaxLayers == 2       \* length of the layers argument of fit
MaxVocab == 2        \* tokens of the vocabulary of an indexer
Ticks == 4           \* the ablation fractions are k / Ticks
MaxUnits == 3        \* captioned units of the dissected model
MaxScore == 1        \* scores of units are 0..MaxScore
MaxTrials == 2       \* --n-random-trials

(***************************************************************************)
(* Small helpers on sequences.                                             *)
(***************************************************************************)
RECURSIVE SumSeq(_)
SumSeq(s) == IF s = <<>> THEN 0 ELSE Head(s) + SumSeq(Tail(s))

RECURSIVE Flatten(_)
Flatten(ss) == IF ss = <<>> THEN <<>> ELSE Head(ss) \o Flatten(Tail(ss))

Min2(a, b) == IF a < b THEN a ELSE b

SeqsUpTo(S, n) == UNION {[1..k -> S] : k \in 0..n}

(***************************************************************************)
(* Values and run-length encoded vectors.                                  *)
(***************************************************************************)
Zero == [num |-> 0, den |-> 1]
IsNaN(v) == v.den = 0
IsZero(v) == v.den # 0 /\ v.num = 0

VecLen(vec) == SumSeq([k \in 1..Len(vec) |-> vec[k].n])
VecIsZero(vec) == \A k \in 1..Len(vec) : IsZero(vec[k].v)
VecHasNaN(vec) == \E k \in 1..Len(vec) : vec[k].n > 0 /\ IsNaN(vec[k].v)

\* images.new_zeros(len(images), *self.feature_shape)
NewZeros(rows, size) == [i \in 1..rows |-> <<[n |-> size, v |-> Zero]>>]

(***************************************************************************)
(* PretrainedPyramidFeaturizer.configs()                                   *)
(***************************************************************************)
ConfigNames == {"alexnet", "resnet18"}

ConfigLayers(config) ==
    IF config = "alexnet"
    THEN <<"conv1", "conv2", "conv3", "conv4", "conv5">>
    ELSE <<"conv1", "layer1", "layer2", "layer3", "layer4">>

AlexnetFeatureSize == 1152
Resnet18FeatureSize == 1024

ConfigFeatureSize(config) ==
    IF config = "alexnet" THEN AlexnetFeatureSize ELSE Resnet18FeatureSize

\* Output channels of the retained layers of the two torchvision networks
\* the configs name (models.alexnet_seq, models.resnet18_seq).
Channels(config, k) ==
    IF config = "alexnet"
    THEN <<64, 192, 384, 256, 256>>[k]
    ELSE <<64, 64, 128, 256, 512>>[k]

\* Down-sampling factor of the retained layers: a 224-pixel input gives
\* 112, 56, 28, 14, 7 in resnet18 and 55, 27, 13, 13, 13 in alexnet.
Stride(config, k) ==
    IF config = "alexnet"
    THEN <<4, 8, 16, 16, 16>>[k]
    ELSE <<2, 4, 8, 16, 32>>[k]

\* fs.shape[-1] of layer k for an input of width w
LayerSize(config, k, w) == (w + Stride(config, k) - 1) \div Stride(config, k)

\* Stand-in for the pretrained network: the activation of layer k at
\* position p for an image (every channel of a layer alike).
Act(image, k, p) == image * k + p

(***************************************************************************)
(* PretrainedPyramidFeaturizer.__init__                                    *)
(***************************************************************************)
ConfigArgs == ConfigNames \cup {"bad-config", "vgg16"}

Unbuilt ==
    [state |-> "unbuilt", arg |-> NoneStr, config |-> NoneStr, layers |-> <<>>, feature_size |-> 0,
     factoryCalls |-> 0, instrumented |-> FALSE, netRuns |-> 0,
     retained |-> {}, device |-> NoneStr, error |-> <<>>]

\* Variant of InitOutcome that looks the config up only after the classifier
\* is built and instrumented.
InitOutcomeLate(config) ==
    IF config \notin ConfigNames
    THEN [Unbuilt EXCEPT !.state = "failed",
                         !.arg = config,
                         !.factoryCalls = 1,
                         !.instrumented = TRUE,
                         !.error = <<"ValueError", "featurizer not supported: ", config>>]
    ELSE [Unbuilt EXCEPT !.state = "built",
                         !.arg = config,
                         !.config = config,
                         !.factoryCalls = 1,
                         !.instrumented = TRUE,
                         !.layers = ConfigLayers(config),
                         !.feature_size = ConfigFeatureSize(config)]

\* The featurizer object after __init__(config).  A ValueError carries the
\* pieces of its f-string message.
InitOutcome(config) ==
    IF config \notin ConfigNames
    THEN [Unbuilt EXCEPT !.state = "failed",
                         !.arg = config,
                         !.error = <<"ValueError", "featurizer not supported: ", config>>]
    ELSE [Unbuilt EXCEPT !.state = "built",
                         !.arg = config,
                         !.config = config,
                         !.factoryCalls = 1,
                         !.instrumented = TRUE,
                         !.layers = ConfigLayers(config),
                         !.feature_size = ConfigFeatureSize(config)]

(***************************************************************************)
(* PretrainedPyramidFeaturizer.forward                                     *)
(***************************************************************************)
\* ~masks.eq(0).all(dim=-1).all(dim=-1).view(-1)
Valid(masks) ==
    [i \in 1..Len(masks) |-> ~(\A p \in 1..Len(masks[i]) : masks[i][p] = 0)]

\* Variant of AnyValid without the early return on an all-invalid batch.
AnyValidAlways(valid) == TRUE

\* valid.any()
AnyValid(valid) == \E i \in 1..Len(valid) : valid[i]

\* valid.nonzero(): the positions that hold True, ascending
RECURSIVE NonzeroFrom(_, _)
NonzeroFrom(valid, i) ==
    IF i > Len(valid) THEN <<>>
    ELSE (IF valid[i] THEN <<i>> ELSE <<>>) \o NonzeroFrom(valid, i + 1)

Nonzero(valid) == NonzeroFrom(valid, 1)

\* .squeeze() of the (k, 1) tensor nonzero() returns: every dimension of
\* size 1 goes, so a single index becomes a 0-dimensional tensor.
Squeeze(nz) == [dim |-> IF Len(nz) = 1 THEN 0 ELSE 1, idx |-> nz]

\* t[indices]: a 0-dimensional index selects one entry and drops the batch
\* dimension, a 1-dimensional index gathers a sub-batch.
IndexSelect(t, indices) ==
    [batched |-> indices.dim = 1,
     rows |-> [j \in 1..Len(indices.idx) |-> t[indices.idx[j]]]]

\* functional.interpolate(mask, size=out, mode='bilinear',
\* align_corners=False) along one axis, every value scaled by 2 * out:
\* output d reads the source coordinate (d + 1/2) * in / out - 1/2, clamped
\* at 0, and mixes the two pixels around it.
Interpolate(mask, out) ==
    LET in == Len(mask)
        srcnum(d) == IF (2 * d + 1) * in - out < 0 THEN 0 ELSE (2 * d + 1) * in - out
        i0(d) == srcnum(d) \div (2 * out)
        i1(d) == IF i0(d) < in - 1 THEN i0(d) + 1 ELSE i0(d)
        r(d) == srcnum(d) % (2 * out)
    IN [e \in 1..out |->
           mask[i0(e - 1) + 1] * (2 * out - r(e - 1)) + mask[i1(e - 1) + 1] * r(e - 1)]

\* ms /= ms.sum(...); fs.mul(ms).sum(...) for one image and one layer: the
\* mask-weighted mean of the layer's activations, 0/0 when the resampled
\* mask sums to zero.
PoolValue(config, k, image, mask) ==
    LET ms == Interpolate(mask, LayerSize(config, k, Len(mask)))
        total == SumSeq(ms)
    IN IF total = 0 THEN [num |-> 0, den |-> 0]
       ELSE [num |-> SumSeq([p \in 1..Len(ms) |-> Act(image, k, p) * ms[p]]),
             den |-> total]

\* The images the model draws: batch and dataset positions
ImageIds == 1..(IF MaxBatch > MaxDataset THEN MaxBatch ELSE MaxDataset)

\* PoolValue tabulated over the inputs of the model, computed once.
PoolTable ==
    [config \in ConfigNames |->
        [k \in 1..Len(ConfigLayers(config)) |->
            [image \in ImageIds |->
                [mask \in [1..MaskWidth -> 0..1] |-> PoolValue(config, k, image, mask)]]]]

MaskedPool(config, k, image, mask) == PoolTable[config][k][image][mask]

\* masked[k]: one run of Channels(k) pooled values per row of the sub-batch
MaskedLevel(config, k, images, masks) ==
    [j \in 1..Len(images) |->
        <<[n |-> Channels(config, k), v |-> MaskedPool(config, k, images[j], masks[j])]>>]

\* torch.cat(masked, dim=-1)
CatLevels(masked, rows) ==
    [j \in 1..rows |-> Flatten([k \in 1..Len(masked) |-> masked[k][j]])]

\* result[indices] = rows
Scatter(result, idx, rows) ==
    [i \in 1..Len(result) |->
        IF \E j \in 1..Len(idx) : idx[j] = i
        THEN rows[CHOOSE j \in 1..Len(idx) : idx[j] = i]
        ELSE result[i]]

\* The whole of forward(images, masks) on featurizer self: what it returns
\* or that it raises, whether the network was run, and whether the retained
\* activations were read and cleared.
ForwardOutcome(self, images, masks) ==
    LET result == NewZeros(Len(images), self.feature_size)
        valid == Valid(masks)
        indices == Squeeze(Nonzero(valid))
        subImages == IndexSelect(images, indices)
        subMasks == IndexSelect(masks, indices)
        masked == [k \in 1..Len(self.layers) |->
                      MaskedLevel(self.config, k, subImages.rows, subMasks.rows)]
        cat == CatLevels(masked, Len(subImages.rows))
    IN IF ~AnyValid(valid)
       THEN [status |-> "returned", result |-> result, ran |-> FALSE, cleared |-> FALSE]
       ELSE IF ~subMasks.batched
       \* a (1, H, W) mask: bilinear interpolate needs 4-D input (and the
       \* network batch-normalises 4-D input only)
       THEN [status |-> "raised", result |-> <<>>, ran |-> TRUE, cleared |-> FALSE]
       \* the rows of cat must be as long as the rows of result
       ELSE IF SumSeq([k \in 1..Len(self.layers) |-> Channels(self.config, k)])
                  # self.feature_size
       THEN [status |-> "raised", result |-> <<>>, ran |-> TRUE, cleared |-> TRUE]
       ELSE [status |-> "returned", result |-> Scatter(result, indices.idx, cat),
             ran |-> TRUE, cleared |-> TRUE]

\* The featurizer object after a forward call with the given outcome; k is
\* how many layers had recorded their activation when the call raised.
AfterForward(self, out, k) ==
    [self EXCEPT !.netRuns = @ + (IF out.ran THEN 1 ELSE 0),
                 !.retained = IF ~out.ran THEN @
                              ELSE IF out.cleared THEN {}
                              ELSE @ \cup {self.layers[l] : l \in 1..k}]

(***************************************************************************)
(* Inputs of the featurizer operations.                                    *)
(***************************************************************************)
Masks == [1..MaskWidth -> 0..1]

ZeroMask == [p \in 1..MaskWidth |-> 0]
FullMask == [p \in 1..MaskWidth |-> 1]

\* The images of a batch are told apart by their content, here their number.
ImageBatch(n) == [i \in 1..n |-> i]

\* A dataset sample: an image and a mask entry, each a tensor or not (a
\* string, say).  Masks of dataset samples are uniform: empty or full.
Samples(i) ==
    {[imageT |-> TRUE, maskT |-> TRUE, image |-> i, mask |-> m] : m \in {ZeroMask, FullMask}}
    \cup {[imageT |-> a, maskT |-> b, image |-> i, mask |-> ZeroMask] :
             <<a, b>> \in {<<FALSE, TRUE>>, <<TRUE, FALSE>>, <<FALSE, FALSE>>}}

Datasets ==
    UNION {{d \in [1..n -> UNION {Samples(i) : i \in 1..n}] :
               \A i \in 1..n : d[i] \in Samples(i)} : n \in 0..MaxDataset}

Devices == {NoneStr, "cpu"}

NoForward == [op |-> "none", images |-> <<>>, masks |-> <<>>, status |-> "none", result |-> <<>>]

NoMap ==
    [pc |-> "idle", dataset |-> <<>>, batchSize |-> 0, device |-> NoneStr, next |-> 0,
     mapped |-> <<>>, forwardCalls |-> 0, error |-> <<>>, result |-> <<>>]

(***************************************************************************)
(* Featurizer.map                                                          *)
(***************************************************************************)
\* The samples the loader puts in the batch that starts after `next`
BatchOf(dataset, next, batchSize) ==
    SubSeq(dataset, next + 1, Min2(next + batchSize, Len(dataset)))

\* default_collate of one column of a batch: the first element decides; a
\* tensor first stacks the column (TypeError when an element is no tensor),
\* a string first leaves the column a list.
Collate(kinds) ==
    IF kinds[1]
    THEN (IF \A i \in 1..Len(kinds) : kinds[i] THEN "tensor" ELSE "TypeError")
    ELSE "list"

\* Variant of CheckBatch that looks at the masks first.
CheckBatchMasksFirst(images, masks) ==
    IF masks # "tensor" THEN <<"ValueError", "non-tensor masks: ", masks>>
    ELSE IF images # "tensor" THEN <<"ValueError", "non-tensor images: ", images>>
    ELSE <<>>

\* The isinstance checks of the loop body on the collated images and masks
\* entries: the error the body raises, <<>> when it raises none.
CheckBatch(images, masks) ==
    IF images # "tensor" THEN <<"ValueError", "non-tensor images: ", images>>
    ELSE IF masks # "tensor" THEN <<"ValueError", "non-tensor masks: ", masks>>
    ELSE <<>>

\* One iteration of the loop of map over the next batch: the map record and
\* the featurizer after it.  k as in AfterForward.
MapStep(m, self, k) ==
    LET batch == BatchOf(m.dataset, m.next, m.batchSize)
        images == Collate([i \in 1..Len(batch) |-> batch[i].imageT])
        masks == Collate([i \in 1..Len(batch) |-> batch[i].maskT])
        out == ForwardOutcome(self, [i \in 1..Len(batch) |-> batch[i].image],
                              [i \in 1..Len(batch) |-> batch[i].mask])
    IN IF images = "TypeError" \/ masks = "TypeError"
       THEN <<[m EXCEPT !.pc = "raised", !.error = <<"TypeError", "collate">>], self>>
       ELSE IF CheckBatch(images, masks) # <<>>
       THEN <<[m EXCEPT !.pc = "raised", !.error = CheckBatch(images, masks)], self>>
       ELSE IF out.status = "raised"
       THEN <<[m EXCEPT !.pc = "raised", !.error = <<"Error", "forward">>,
                        !.forwardCalls = @ + 1],
              AfterForward(self, out, k)>>
       ELSE <<[m EXCEPT !.next = @ + Len(batch),
                        !.mapped = Append(@, out.result),
                        !.forwardCalls = @ + 1],
              AfterForward(self, out, k)>>

\* data.TensorDataset(torch.cat(mapped)): torch.cat of an empty list raises
MapFinish(m) ==
    IF m.mapped = <<>>
    THEN [m EXCEPT !.pc = "raised", !.error = <<"RuntimeError", "torch.cat">>]
    ELSE [m EXCEPT !.pc = "returned", !.result = Flatten(m.mapped)]

(***************************************************************************)
(* Actions of the featurizer.                                              *)
(***************************************************************************)
Construct(config) ==
    /\ fz.state = "unbuilt"
    /\ fz' = InitOutcome(config)
    /\ UNCHANGED <<fwd, mp, clf, net, fit, lm, fac, drv>>

\* How many layers may have recorded their activation when a forward call
\* ends: any number when it raised inside the network or right after it.
RetainedDepths(self, out) ==
    IF out.ran /\ ~out.cleared THEN 0..Len(self.layers) ELSE {0}

Forward(masks) ==
    /\ fz.state = "built" /\ fwd.op = "none" /\ mp.pc = "idle"
    /\ LET images == ImageBatch(Len(masks))
           out == ForwardOutcome(fz, images, masks)
       IN /\ fwd' = [op |-> "forward", images |-> images, masks |-> masks,
                     status |-> out.status, result |-> out.result]
          /\ \E k \in RetainedDepths(fz, out) : fz' = AfterForward(fz, out, k)
    /\ UNCHANGED <<mp, clf, net, fit, lm, fac, drv>>

MapCall(dataset, batchSize, device) ==
    /\ fz.state = "built" /\ fwd.op = "none" /\ mp.pc = "idle"
    /\ fz' = IF device # NoneStr THEN [fz EXCEPT !.device = device] ELSE fz
    /\ mp' = [NoMap EXCEPT !.pc = "loop", !.dataset = dataset,
                           !.batchSize = batchSize, !.device = device]
    /\ UNCHANGED <<fwd, clf, net, fit, lm, fac, drv>>

MapBatch ==
    /\ mp.pc = "loop" /\ mp.next < Len(mp.dataset)
    /\ \E k \in 0..Len(fz.layers) :
          /\ mp' = MapStep(mp, fz, k)[1]
          /\ fz' = MapStep(mp, fz, k)[2]
    /\ UNCHANGED <<fwd, clf, net, fit, lm, fac, drv>>

MapReturn ==
    /\ mp.pc = "loop" /\ mp.next >= Len(mp.dataset)
    /\ mp' = MapFinish(mp)
    /\ UNCHANGED <<fz, fwd, clf, net, fit, lm, fac, drv>>

(***************************************************************************)
(* ImageClassifier: the wrapped model and the inputs of its operations.    *)
(***************************************************************************)
\* Units of the wrapped model that can be ablated: (layer, index) pairs.
Units == {<<"layer4", 0>>, <<"layer4", 1>>}

Classes == 0..(NumClasses - 1)

\* Stand-in for the wrapped classification model: the logit of class c for
\* an image when the units in zeroed are zeroed.  Unit (layer, j) votes for
\* class (image + j) mod NumClasses with strength j + 1.
Logit(image, c, zeroed) ==
    SumSeq([j \in 1..2 |->
               IF <<"layer4", j - 1>> \notin zeroed /\ (image + j - 1) % NumClasses = c
               THEN j ELSE 0])

\* .argmax(dim=-1): the first index that holds the maximum
Argmax(image, zeroed) ==
    CHOOSE c \in Classes :
        /\ \A d \in Classes : Logit(image, d, zeroed) <= Logit(image, c, zeroed)
        /\ \A d \in Classes : d < c => Logit(image, d, zeroed) < Logit(image, c, zeroed)

ClfImages == {1, 2}

ClfItems == [image : ClfImages, target : Classes]

ClfDatasets == SeqsUpTo(ClfItems, MaxDataset)

AblateArgs ==
    {None} \cup {Some(units) : units \in {<<>>, <<<<"layer4", 0>>>>, <<<<"layer4", 1>>>>,
                                          <<<<"layer4", 0>>, <<"layer4", 1>>>>}}

\* Precomputed predictions handed to accuracy: None or a tensor of classes
PredictionArgs == {None} \cup {Some(p) : p \in SeqsUpTo(Classes, MaxDataset)}

NoValue == [num |-> 0, den |-> 0]

ClfIdle ==
    [op |-> "none", pc |-> "idle", dataset |-> <<>>, batchSize |-> 0, ablate |-> None,
     given |-> None, next |-> 0, predictions |-> <<>>, result |-> None,
     value |-> NoValue, byClass |-> <<>>, error |-> <<>>, predictCalls |-> 0]

\* The wrapped model: the units zeroed right now, the ablation contexts
\* open on it, and the forward passes made so far (the dataset positions of
\* the images and the units zeroed during the pass).
NetIdle == [ablated |-> {}, ctx |-> 0, forwards |-> <<>>]

(***************************************************************************)
(* ImageClassifier.predict                                                 *)
(***************************************************************************)
\* Variant of AblateArg that drops the units asked for.
AblateArgIgnored(ablate) == <<>>

\* ablate or []
AblateArg(ablate) == IF ~ablate.some \/ ablate.v = <<>> THEN <<>> ELSE ablate.v

\* ablations.ablated(model, units).__enter__: the units are zeroed in every
\* forward pass until the context is left.
AblatedEnter(n, units) ==
    [n EXCEPT !.ablated = {units[i] : i \in 1..Len(units)}, !.ctx = @ + 1]

\* ablations.ablated(model, units).__exit__: the model is restored.
AblatedExit(n) == [n EXCEPT !.ablated = {}, !.ctx = @ - 1]

\* ablated(images).argmax(dim=-1) for the batch that starts after `next`
PredictBatchOut(c, n) ==
    LET batch == BatchOf(c.dataset, c.next, c.batchSize)
    IN [i \in 1..Len(batch) |-> Argmax(batch[i].image, n.ablated)]

\* torch.cat(predictions) of a non-empty list
CatPredictions(predictions) == Flatten(predictions)

(***************************************************************************)
(* ImageClassifier.accuracy                                                *)
(***************************************************************************)
\* Whether the shapes of predictions and targets broadcast against each
\* other: equal lengths, or one of them of length 1.
Broadcasts(predictions, targets) ==
    Len(predictions) = Len(targets) \/ Len(predictions) = 1 \/ Len(targets) = 1

\* predictions.eq(targets): element-wise, a tensor of length 1 repeated
EqTensors(predictions, targets) ==
    IF Len(predictions) = Len(targets)
    THEN [i \in 1..Len(targets) |-> predictions[i] = targets[i]]
    ELSE IF Len(predictions) = 1
    THEN [i \in 1..Len(targets) |-> predictions[1] = targets[i]]
    ELSE [i \in 1..Len(predictions) |-> predictions[i] = targets[1]]

\* Variant of Correct that counts the predictions that miss.
CorrectMisses(eq) == Cardinality({i \in 1..Len(eq) : ~eq[i]})

\* .sum().item()
Correct(eq) == Cardinality({i \in 1..Len(eq) : eq[i]})

\* accuracy once it holds predictions: the classifier record after it.
\* correct / size is the fraction [num, den]; size 0 raises.
AccuracyFinish(c, predictions) ==
    LET size == Len(c.dataset)
        targets == [i \in 1..size |-> c.dataset[i].target]
        eq == EqTensors(predictions, targets)
    IN IF ~Broadcasts(predictions, targets)
       THEN [c EXCEPT !.pc = "raised", !.error = <<"RuntimeError", "broadcast">>]
       ELSE IF size = 0
       THEN [c EXCEPT !.pc = "raised", !.error = <<"ZeroDivisionError">>]
       ELSE [c EXCEPT !.pc = "returned", !.value = [num |-> Correct(eq), den |-> size]]

(***************************************************************************)
(* ImageClassifier.accuracies                                              *)
(***************************************************************************)
\* zip(predictions.tolist(), targets.tolist()): the pairs up to the shorter
\* of the two
Zipped(predictions, targets) == 1..Min2(Len(predictions), Len(targets))

\* The keys of `correct` after the loop: correct[target] += ... inserts the
\* key of a defaultdict whatever is added to it.
CorrectKeys(predictions, targets) ==
    {targets[i] : i \in Zipped(predictions, targets)}

\* The keys of `total` after the loop
TotalKeys(predictions, targets) ==
    {targets[i] : i \in Zipped(predictions, targets)}

\* correct[t] after the loop
CorrectOf(predictions, targets, t) ==
    Cardinality({i \in Zipped(predictions, targets) :
                    targets[i] = t /\ predictions[i] = targets[i]})

\* total[t] after the loop
TotalOf(predictions, targets, t) ==
    Cardinality({i \in Zipped(predictions, targets) : targets[i] = t})

\* accuracies once it holds predictions: the classifier record after it.
AccuraciesFinish(c, predictions) ==
    LET size == Len(c.dataset)
        targets == [i \in 1..size |-> c.dataset[i].target]
    IN IF CorrectKeys(predictions, targets) # TotalKeys(predictions, targets)
       THEN [c EXCEPT !.pc = "raised", !.error = <<"AssertionError">>]
       ELSE [c EXCEPT !.pc = "returned",
                      !.byClass = [t \in CorrectKeys(predictions, targets) |->
                                      [num |-> CorrectOf(predictions, targets, t),
                                       den |-> TotalOf(predictions, targets, t)]]]

(***************************************************************************)
(* Actions of the classifier.                                              *)
(***************************************************************************)
\* predict up to the loop: the loader is made and the ablation context is
\* entered.
PredictCall(dataset, batchSize, ablate) ==
    /\ clf.pc = "idle"
    /\ clf' = [ClfIdle EXCEPT !.op = "predict", !.pc = "loop", !.dataset = dataset,
                              !.batchSize = batchSize, !.ablate = ablate,
                              !.predictCalls = 1]
    /\ net' = AblatedEnter(net, AblateArg(ablate))
    /\ UNCHANGED <<fz, fwd, mp, fit, lm, fac, drv>>

\* One iteration of the loop of predict.
PredictBatch ==
    /\ clf.pc = "loop" /\ clf.next < Len(clf.dataset)
    /\ LET n == Len(BatchOf(clf.dataset, clf.next, clf.batchSize))
       IN /\ clf' = [clf EXCEPT !.next = @ + n,
                                !.predictions = Append(@, PredictBatchOut(clf, net))]
          /\ net' = [net EXCEPT !.forwards =
                        Append(@, [items |-> [i \in 1..n |-> clf.next + i],
                                   ablated |-> net.ablated, ctx |-> net.ctx])]
    /\ UNCHANGED <<fz, fwd, mp, fit, lm, fac, drv>>

\* The loop is over: the context is left and the batches are concatenated.
\* Under accuracy and accuracies the result goes on to their return step.
PredictReturn ==
    /\ clf.pc = "loop" /\ clf.next >= Len(clf.dataset)
    /\ net' = AblatedExit(net)
    /\ clf' = IF clf.predictions = <<>>
              THEN [clf EXCEPT !.pc = "raised", !.error = <<"RuntimeError", "torch.cat">>]
              ELSE [clf EXCEPT !.pc = IF clf.op = "predict" THEN "returned" ELSE "predicted",
                               !.result = Some(CatPredictions(clf.predictions))]
    /\ UNCHANGED <<fz, fwd, mp, fit, lm, fac, drv>>

\* accuracy up to the end of predict, or all of it on precomputed
\* predictions.
AccuracyCall(dataset, predictions, batchSize, ablate) ==
    /\ clf.pc = "idle"
    /\ IF ~predictions.some
       THEN /\ clf' = [ClfIdle EXCEPT !.op = "accuracy", !.pc = "loop",
                                      !.dataset = dataset, !.batchSize = batchSize,
                                      !.ablate = ablate, !.predictCalls = 1]
            /\ net' = AblatedEnter(net, AblateArg(ablate))
       ELSE /\ clf' = AccuracyFinish([ClfIdle EXCEPT !.op = "accuracy",
                                                     !.dataset = dataset,
                                                     !.given = predictions],
                                     predictions.v)
            /\ net' = net
    /\ UNCHANGED <<fz, fwd, mp, fit, lm, fac, drv>>

\* accuracy after predict returned.
AccuracyReturn ==
    /\ clf.pc = "predicted" /\ clf.op = "accuracy"
    /\ clf' = AccuracyFinish(clf, clf.result.v)
    /\ UNCHANGED <<fz, fwd, mp, net, fit, lm, fac, drv>>

\* accuracies up to the end of predict, or all of it on precomputed
\* predictions.
AccuraciesCall(dataset, predictions, batchSize, ablate) ==
    /\ clf.pc = "idle"
    /\ IF ~predictions.some
       THEN /\ clf' = [ClfIdle EXCEPT !.op = "accuracies", !.pc = "loop",
                                      !.dataset = dataset, !.batchSize = batchSize,
                                      !.ablate = ablate, !.predictCalls = 1]
            /\ net' = AblatedEnter(net, AblateArg(ablate))
       ELSE /\ clf' = AccuraciesFinish([ClfIdle EXCEPT !.op = "accuracies",
                                                       !.dataset = dataset,
                                                       !.given = predictions],
                                       predictions.v)
            /\ net' = net
    /\ UNCHANGED <<fz, fwd, mp, fit, lm, fac, drv>>

\* accuracies after predict returned.
AccuraciesReturn ==
    /\ clf.pc = "predicted" /\ clf.op = "accuracies"
    /\ clf' = AccuraciesFinish(clf, clf.result.v)
    /\ UNCHANGED <<fz, fwd, mp, net, fit, lm, fac, drv>>

(***************************************************************************)
(* lang.Indexer, as LanguageModel uses it.  A word is a number; the        *)
(* vocabulary of n tokens holds the words 1..n at the indices 0..n-1, and  *)
(* a text is the sequence of its words.                                    *)
(***************************************************************************)
Indexers == [n : 0..MaxVocab]

\* A word that no vocabulary holds
OOV == MaxVocab + 1

\* indexer.start_index, stop_index, pad_index, unk_index: the first four
\* indices after the vocabulary
StartIndex(ix) == ix.n
StopIndex(ix) == ix.n + 1
PadIndexOff(ix) == ix.n + 4
PadIndex(ix) == ix.n + 2
UnkIndex(ix) == ix.n + 3

\* indexer.specials: index -> special token
Specials(ix) ==
    [i \in {StartIndex(ix), StopIndex(ix), PadIndex(ix), UnkIndex(ix)} |->
        IF i = StartIndex(ix) THEN "<start>"
        ELSE IF i = StopIndex(ix) THEN "<stop>"
        ELSE IF i = PadIndex(ix) THEN "<pad>"
        ELSE "<unk>"]

\* len(indexer): the vocabulary and the specials
IndexerLen(ix) == ix.n + Cardinality(DOMAIN Specials(ix))

\* The index of a word: its vocabulary index, else unk
WordIndex(ix, word) == IF word <= ix.n THEN word - 1 ELSE UnkIndex(ix)

\* One text indexed, before padding
IndexText(ix, text, start, stop) ==
    (IF start THEN <<StartIndex(ix)>> ELSE <<>>)
        \o [i \in 1..Len(text) |-> WordIndex(ix, text[i])]
        \o (IF stop THEN <<StopIndex(ix)>> ELSE <<>>)

\* The longest row of a batch
Longest(rows) ==
    IF rows = <<>> THEN 0
    ELSE CHOOSE m \in {Len(rows[i]) : i \in 1..Len(rows)} :
            \A i \in 1..Len(rows) : Len(rows[i]) <= m

\* indexer(texts, start=, stop=, pad=, unk=True): every text indexed and,
\* with pad, filled with the pad index up to the longest of the batch
IndexerCall(ix, texts, start, stop, pad) ==
    LET rows == [b \in 1..Len(texts) |-> IndexText(ix, texts[b], start, stop)]
    IN IF ~pad THEN rows
       ELSE [b \in 1..Len(texts) |->
                rows[b] \o [i \in 1..(Longest(rows) - Len(rows[b])) |-> PadIndex(ix)]]

(***************************************************************************)
(* LanguageModel                                                           *)
(***************************************************************************)
LmUnbuilt ==
    [state |-> "unbuilt", indexer |-> [n |-> 0], embeddingRows |-> 0, paddingIdx |-> 0,
     outputSize |-> 0, training |-> TRUE, pc |-> "idle", sequences |-> <<>>,
     batchSize |-> 0, next |-> 0, logprobs |-> <<>>, result |-> <<>>, error |-> <<>>]

\* __init__: nn.Embedding(len(indexer), ..., padding_idx=indexer.pad_index)
\* and the output layer over len(indexer) tokens.  The embedding refuses a
\* padding index outside its rows.
LmInit(ix) ==
    IF PadIndex(ix) >= IndexerLen(ix)
    THEN [LmUnbuilt EXCEPT !.state = "failed", !.indexer = ix,
                           !.error = <<"AssertionError", "padding_idx">>]
    ELSE [LmUnbuilt EXCEPT !.state = "built", !.indexer = ix,
                           !.embeddingRows = IndexerLen(ix),
                           !.paddingIdx = PadIndex(ix),
                           !.outputSize = IndexerLen(ix)]

\* The log-probability the model gives a token after a prefix of the input:
\* the LSTM reads left to right, so position i sees the inputs up to i only.
\* The values stand in for the trained network.
LogProb(prefix, token) ==
    0 - (1 + ((SumSeq([i \in 1..Len(prefix) |-> i * (prefix[i] + 1)]) + 2 * token) % 5))

\* self(inputs) for one row: position i holds LogProb over every token
OutputAt(row, i, token) == LogProb(SubSeq(row, 1, i), token)

\* Variant of Targets that pads the targets as the inputs are padded.
TargetsPadded(ix, batch) == IndexerCall(ix, batch, FALSE, TRUE, TRUE)

\* The targets of a batch: stop=True, pad=False
Targets(ix, batch) == IndexerCall(ix, batch, FALSE, TRUE, FALSE)

\* The inputs of a batch: start=True, pad=True
Inputs(ix, batch) == IndexerCall(ix, batch, TRUE, FALSE, TRUE)

\* Whether every target of the batch indexes inside its output: the output
\* of a row has one position per input.
TargetsFit(ix, batch) ==
    \A b \in 1..Len(batch) : Len(Targets(ix, batch)[b]) <= Len(Inputs(ix, batch)[b])

\* output[torch.arange(len(target)), target].sum() for every row of a batch
BatchLogProbs(ix, batch) ==
    LET inputs == Inputs(ix, batch)
        targets == Targets(ix, batch)
    IN [b \in 1..Len(batch) |->
           SumSeq([i \in 1..Len(targets[b]) |-> OutputAt(inputs[b], i, targets[b][i])])]

\* torch.exp of a log-probability, kept as its exponent
Exp(x) == [exp |-> x]

LmTexts == {<<>>, <<1>>, <<2, 1>>, <<1, OOV>>, <<OOV, 2, 1>>}

LmConstruct(ix) ==
    /\ lm.state = "unbuilt"
    /\ lm' = LmInit(ix)
    /\ UNCHANGED <<fz, fwd, mp, clf, net, fit, fac, drv>>

\* predict up to the loop: the model is put in eval mode
LmPredictCall(sequences, batchSize) ==
    /\ lm.state = "built" /\ lm.pc = "idle"
    /\ lm' = [lm EXCEPT !.pc = "loop", !.training = FALSE, !.sequences = sequences,
                        !.batchSize = batchSize, !.next = 0, !.logprobs = <<>>,
                        !.result = <<>>]
    /\ UNCHANGED <<fz, fwd, mp, clf, net, fit, fac, drv>>

\* One iteration of the loop of predict
LmPredictBatch ==
    /\ lm.pc = "loop" /\ lm.next < Len(lm.sequences)
    /\ LET batch == BatchOf(lm.sequences, lm.next, lm.batchSize)
       IN lm' = IF ~TargetsFit(lm.indexer, batch)
                THEN [lm EXCEPT !.pc = "raised", !.error = <<"IndexError">>]
                ELSE [lm EXCEPT !.next = @ + Len(batch),
                                !.logprobs = @ \o BatchLogProbs(lm.indexer, batch)]
    /\ UNCHANGED <<fz, fwd, mp, clf, net, fit, fac, drv>>

\* torch.exp(torch.tensor(logprobs))
LmPredictReturn ==
    /\ lm.pc = "loop" /\ lm.next >= Len(lm.sequences)
    /\ lm' = [lm EXCEPT !.pc = "returned",
                        !.result = [j \in 1..Len(lm.logprobs) |-> Exp(lm.logprobs[j])]]
    /\ UNCHANGED <<fz, fwd, mp, clf, net, fit, fac, drv>>

(***************************************************************************)
(* lm(): the factory of the language model.  Mappings are objects on a     *)
(* heap, so that a write through one name shows through every other name   *)
(* of the same object.                                                     *)
(***************************************************************************)
FlagKeys == {"start", "stop", "pad", "unk"}

\* lang.tokenizer(lemmatize=, ignore_stop=, ignore_punct=)
Tokenizer(lemmatize, ignoreStop, ignorePunct) ==
    [lemmatize |-> lemmatize, ignore_stop |-> ignoreStop, ignore_punct |-> ignorePunct]

\* lang.tokenizer(): every flag on
DefaultTokenizer == Tokenizer(TRUE, TRUE, TRUE)

EmptyDict == [key \in {} |-> TRUE]

\* The mappings a caller may pass as indexer_kwargs
KwargDicts ==
    UNION {[keys -> BOOLEAN] : keys \in SUBSET FlagKeys}

WithTokenize(kw) ==
    [key \in DOMAIN kw \cup {"tokenize"} |->
        IF key = "tokenize" THEN DefaultTokenizer ELSE kw[key]]

KwargArgs ==
    {None} \cup {Some(kw) : kw \in KwargDicts} \cup {Some(WithTokenize(kw)) : kw \in KwargDicts}

\* The object the caller holds, and the objects lm() allocates
CallerDict == "indexer_kwargs of the caller"
FreshDict == "{}"
CopyDict == "dict(indexer_kwargs)"

\* Variant of WithDefaults that writes every default over the caller's value.
WithDefaultsForced(kw) ==
    [key \in DOMAIN kw \cup FlagKeys \cup {"tokenize"} |->
        IF key = "tokenize" THEN Tokenizer(FALSE, FALSE, FALSE) ELSE TRUE]

\* The mapping after `if 'tokenize' not in indexer_kwargs: ...` and the
\* setdefault of the four flags
WithDefaults(kw) ==
    [key \in DOMAIN kw \cup FlagKeys \cup {"tokenize"} |->
        IF key \in DOMAIN kw THEN kw[key]
        ELSE IF key = "tokenize" THEN Tokenizer(FALSE, FALSE, FALSE)
        ELSE TRUE]

\* lm() up to the call of lang.indexer: the heap after it and the object
\* whose entries are passed on
FactoryKwargs(arg) ==
    LET heap0 == IF arg.some THEN [id \in {CallerDict} |-> arg.v]
                 ELSE [id \in {FreshDict} |-> EmptyDict]
        local0 == IF arg.some THEN CallerDict ELSE FreshDict
        heap1 == [id \in DOMAIN heap0 \cup {CopyDict} |->
                     IF id = CopyDict THEN heap0[local0] ELSE heap0[id]]
        local1 == CopyDict
        heap2 == [heap1 EXCEPT ![local1] = WithDefaults(@)]
    IN [heap |-> heap2, passed |-> heap2[local1]]

FacIdle == [pc |-> "idle", arg |-> None, heap |-> <<>>, passed |-> EmptyDict, words |-> 0]

\* lm(dataset, indexer_kwargs=...): the indexer is built over the words of
\* the annotations and the model is constructed on it.
LmFactory(words, arg) ==
    /\ fac.pc = "idle" /\ lm.state = "unbuilt"
    /\ fac' = [pc |-> "returned", arg |-> arg, heap |-> FactoryKwargs(arg).heap,
               passed |-> FactoryKwargs(arg).passed, words |-> words]
    /\ lm' = LmInit([n |-> words])
    /\ UNCHANGED <<fz, fwd, mp, clf, net, fit, drv>>

(***************************************************************************)
(* LanguageModel.fit and ImageClassifier.fit: the training loop.           *)
(***************************************************************************)
Fitters == {"LanguageModel", "ImageClassifier"}

\* self.model.named_modules(): the names of the wrapped model's modules in
\* registration order, the root ("") first.
NamedModules == <<"", "conv1", "relu", "fc">>

\* list(submodule.parameters()) of a named module
ParametersOf(name) ==
    IF name = "" THEN {"conv1.weight", "fc.weight"}
    ELSE IF name = "conv1" THEN {"conv1.weight"}
    ELSE IF name = "fc" THEN {"fc.weight"}
    ELSE {}

\* list(self.parameters()): every parameter of the model
AllParameters == ParametersOf("")

\* The layer names a caller may ask for, in the order sorted() gives them
\* (sorted(missing) is this sequence restricted to the missing names)
LayerNames == <<"conv1", "conv9", "fc", "layerX", "relu">>

LayerArgs == {None} \cup {Some(layers) : layers \in
                 SeqsUpTo({LayerNames[i] : i \in 1..Len(LayerNames)}, MaxLayers)}

\* Variant of Missing that forgets the names that match no module.
MissingNone(layers) == {}

\* The loop over named_modules(): the requested names that are left in
\* `missing` after every module name found was taken out.
Missing(layers) ==
    {layers[i] : i \in 1..Len(layers)} \ {NamedModules[j] : j \in 1..Len(NamedModules)}

\* The loop over named_modules(): the parameters collected
Collected(layers) ==
    UNION {ParametersOf(NamedModules[j]) :
              j \in {k \in 1..Len(NamedModules) :
                        NamedModules[k] \in {layers[i] : i \in 1..Len(layers)}}}

\* The parameters handed to the optimizer, or the error raised before the
\* optimizer exists.  The optimizer refuses an empty parameter list.
FitParameters(layers) ==
    IF ~layers.some
    THEN [error |-> <<>>, parameters |-> AllParameters]
    ELSE IF Missing(layers.v) # {}
    THEN [error |-> <<"KeyError", "could not find layers: ", 
                     SelectSeq(LayerNames, LAMBDA name : name \in Missing(layers.v))>>,
          parameters |-> {}]
    ELSE IF Collected(layers.v) = {}
    THEN [error |-> <<"ValueError", "optimizer got an empty parameter list">>,
          parameters |-> {}]
    ELSE [error |-> <<>>, parameters |-> Collected(layers.v)]

\* training.EarlyStopping(patience=patience): the best loss of a fresh
\* stopper is float('inf'), above every loss
NewStopper(patience) == [patience |-> patience, best |-> MaxLoss + 1, numBad |-> 0]

\* stopper(val_loss): the loss either improves on the best one or counts as
\* one more epoch without improvement.
StopperCall(st, loss) ==
    IF loss < st.best THEN [st EXCEPT !.best = loss, !.numBad = 0]
    ELSE [st EXCEPT !.numBad = @ + 1]

\* What stopper(val_loss) returns: no improvement for `patience` epochs
StopperReports(st) == st.numBad >= st.patience

FitIdle ==
    [who |-> NoneStr, pc |-> "idle", maxEpochs |-> 0, nTrain |-> 0, nVal |-> 0,
     layers |-> None, ablate |-> None, optimized |-> {}, weights |-> <<>>, stopper |-> NewStopper(0),
     epoch |-> 0, batch |-> 0, steps |-> 0, trainBatches |-> 0, valBatches |-> 0,
     reported |-> FALSE, stepsAtReport |-> 0, ignoreIndex |-> 0, error |-> <<>>]

\* fit up to the loop over epochs: split, loaders, parameters, optimizer,
\* criterion and stopper.
FitSetup(who, maxEpochs, patience, nTrain, nVal, layers, ablate) ==
    LET chosen == FitParameters(layers)
        called == [FitIdle EXCEPT !.who = who, !.maxEpochs = maxEpochs, !.nTrain = nTrain,
                                  !.nVal = nVal, !.layers = layers, !.ablate = ablate,
                                  !.weights = [p \in AllParameters |-> 0],
                                  !.stopper = NewStopper(patience)]
    IN IF chosen.error # <<>>
       THEN [called EXCEPT !.pc = "raised", !.error = chosen.error]
       ELSE IF maxEpochs <= 0
       THEN [called EXCEPT !.pc = "returned", !.optimized = chosen.parameters]
       ELSE [called EXCEPT !.pc = "train", !.optimized = chosen.parameters]

\* One batch of the training pass: loss.backward(); optimizer.step()
TrainStep(f) ==
    [f EXCEPT !.batch = @ + 1, !.steps = @ + 1, !.trainBatches = @ + 1,
              !.weights = [p \in DOMAIN @ |-> IF p \in f.optimized THEN @[p] + 1 ELSE @[p]]]

\* train_loss /= len(train_loader), then the model is put in eval mode
TrainDone(f) ==
    IF f.nTrain = 0
    THEN [f EXCEPT !.pc = "raised", !.error = <<"ZeroDivisionError">>]
    ELSE [f EXCEPT !.pc = "val", !.batch = 0]

\* One batch of the validation pass, under torch.no_grad()
ValStep(f) ==
    [f EXCEPT !.batch = @ + 1, !.valBatches = @ + 1]

\* Variant of AfterEpoch that ignores the report of the stopper.
AfterEpochNoBreak(f, loss) ==
    LET st == StopperCall(f.stopper, loss)
        ended == [f EXCEPT !.stopper = st, !.epoch = @ + 1, !.batch = 0]
    IN IF f.nVal = 0
       THEN [f EXCEPT !.pc = "raised", !.error = <<"ZeroDivisionError">>]
       ELSE IF StopperReports(st)
       THEN [ended EXCEPT !.pc = IF ended.epoch >= f.maxEpochs THEN "returned" ELSE "train",
                          !.reported = TRUE, !.stepsAtReport = f.steps]
       ELSE IF ended.epoch >= f.maxEpochs
       THEN [ended EXCEPT !.pc = "returned"]
       ELSE [ended EXCEPT !.pc = "train"]

\* The end of an epoch: val_loss /= len(val_loader), then the early-stopping
\* check.  When it reports, the best state is loaded and the loop is left
\* (state_dict() holds the live tensors, so the load copies the current
\* values onto themselves); else the next epoch starts, or the range of
\* epochs is exhausted and fit returns.
AfterEpoch(f, loss) ==
    LET st == StopperCall(f.stopper, loss)
        ended == [f EXCEPT !.stopper = st, !.epoch = @ + 1, !.batch = 0]
    IN IF f.nVal = 0
       THEN [f EXCEPT !.pc = "raised", !.error = <<"ZeroDivisionError">>]
       ELSE IF StopperReports(st)
       THEN [ended EXCEPT !.pc = "returned", !.reported = TRUE, !.stepsAtReport = f.steps]
       ELSE IF ended.epoch >= f.maxEpochs
       THEN [ended EXCEPT !.pc = "returned"]
       ELSE [ended EXCEPT !.pc = "train"]

\* The model after a step of fit: ImageClassifier.fit runs its loop inside
\* ablations.ablated(self.model, ablate or []), entered when the loop is
\* reached and left when fit returns or raises.
FitNet(before, after) ==
    IF after.who # "ImageClassifier" THEN net
    ELSE IF before.pc = "idle" /\ after.pc = "train"
    THEN AblatedEnter(net, AblateArg(after.ablate))
    ELSE IF before.pc \in {"train", "val"} /\ after.pc \in {"returned", "raised"}
    THEN AblatedExit(net)
    ELSE net

\* The index the criterion of fit ignores: the pad index of the indexer for
\* the language model's NLLLoss, the default of CrossEntropyLoss() for the
\* classifier.
IgnoreIndex(who) == IF who = "LanguageModel" THEN PadIndex(lm.indexer) ELSE 0 - 100

FitCall(who, maxEpochs, patience, nTrain, nVal, layers, ablate) ==
    /\ fit.pc = "idle"
    /\ who = "LanguageModel" => lm.state = "built"
    /\ fit' = [FitSetup(who, maxEpochs, patience, nTrain, nVal, layers, ablate)
                  EXCEPT !.ignoreIndex = IgnoreIndex(who)]
    /\ net' = FitNet(fit, fit')
    /\ UNCHANGED <<fz, fwd, mp, clf, lm, fac, drv>>

TrainBatch ==
    /\ fit.pc = "train" /\ fit.batch < fit.nTrain
    /\ fit' = TrainStep(fit)
    /\ UNCHANGED <<fz, fwd, mp, clf, net, lm, fac, drv>>

TrainEnd ==
    /\ fit.pc = "train" /\ fit.batch >= fit.nTrain
    /\ fit' = TrainDone(fit)
    /\ net' = FitNet(fit, fit')
    /\ UNCHANGED <<fz, fwd, mp, clf, lm, fac, drv>>

ValBatch ==
    /\ fit.pc = "val" /\ fit.batch < fit.nVal
    /\ fit' = ValStep(fit)
    /\ UNCHANGED <<fz, fwd, mp, clf, net, lm, fac, drv>>

\* The validation loss is whatever the model produces on the held-out data.
EpochEnd ==
    /\ fit.pc = "val" /\ fit.batch >= fit.nVal
    /\ \E loss \in 0..MaxLoss : fit' = AfterEpoch(fit, loss)
    /\ net' = FitNet(fit, fit')
    /\ UNCHANGED <<fz, fwd, mp, clf, lm, fac, drv>>

(***************************************************************************)
(* run_cnn_ablations.py: the ablation driver.  A fraction is a number of   *)
(* ticks k, standing for k / Ticks; the arithmetic is exact (the rounding  *)
(* of binary floating point is not modelled).  Units are 0..N-1, the       *)
(* positions of their captions.                                            *)
(***************************************************************************)
EXPERIMENTS_BY_GROUP ==
    [random |-> {"random"},
     semantic |-> {"airliner", "car", "chihuahua", "finch", "frog", "gazelle", "horse",
                   "ship", "tabby", "truck"},
     syntactic |-> {"n-nouns", "n-verbs", "n-adpositions", "n-adjectives"},
     structural |-> {"caption-length", "max-word-difference", "parse-depth"}]

GROUPS == DOMAIN EXPERIMENTS_BY_GROUP

\* The choices and the default of --experiments
EXPERIMENTS ==
    <<"random", "airliner", "car", "chihuahua", "finch", "frog", "gazelle", "horse",
      "ship", "tabby", "truck", "n-nouns", "n-verbs", "n-adpositions", "n-adjectives",
      "caption-length", "max-word-difference", "parse-depth">>

GROUPS_BY_EXPERIMENT ==
    [experiment \in UNION {EXPERIMENTS_BY_GROUP[group] : group \in GROUPS} |->
        CHOOSE group \in GROUPS : experiment \in EXPERIMENTS_BY_GROUP[group]]

\* The rank of a group name in the order sorted() gives the names
GroupRank(group) ==
    LET order == <<"random", "semantic", "structural", "syntactic">>
    IN CHOOSE k \in 1..Len(order) : order[k] = group

ORDERS == <<"decreasing", "increasing">>

\* "Determine subset of experiments to run": the value of --experiments
\* (its default when the option is absent), with the experiments of every
\* named group added.
SelectExperiments(experiments, groups) ==
    {experiments[i] : i \in 1..Len(experiments)}
        \cup (IF groups.some /\ groups.v # <<>>
              THEN UNION {EXPERIMENTS_BY_GROUP[groups.v[i]] : i \in 1..Len(groups.v)}
              ELSE {})

\* args.experiments: the option's value, else its default
ExperimentsValue(arg) == IF arg.some THEN arg.v ELSE EXPERIMENTS

\* The experiments that may run next: sorted() by group puts the least
\* group first; the order inside a group is the set's.
NextExperiments(remaining) ==
    {e \in remaining :
        \A d \in remaining : GroupRank(GROUPS_BY_EXPERIMENT[e]) <= GroupRank(GROUPS_BY_EXPERIMENT[d])}

\* Variant of SortedIndices that ranks by increasing score whatever the order.
SortedIndicesIncreasing(scores, order) ==
    LET n == Len(scores)
        pos(i) == 1 + Cardinality({j \in 1..n :
                         \/ scores[j] < scores[i]
                         \/ scores[j] = scores[i] /\ j < i})
    IN [p \in 1..n |-> (CHOOSE i \in 1..n : pos(i) = p) - 1]

\* sorted(range(len(captions)), key=lambda i: scores[i], reverse=...): a
\* stable sort, which keeps units of equal score in index order in both
\* directions.  scores[i + 1] is the score of unit i.
SortedIndices(scores, order) ==
    LET n == Len(scores)
        before(j, i) == IF order = "decreasing" THEN scores[j] > scores[i]
                        ELSE scores[j] < scores[i]
        pos(i) == 1 + Cardinality({j \in 1..n :
                         \/ before(j, i)
                         \/ scores[j] = scores[i] /\ j < i})
    IN [p \in 1..n |-> (CHOOSE i \in 1..n : pos(i) = p) - 1]

\* np.arange(min, max, step), in ticks: min, min + step, ... below max
Fractions(min, max, step) ==
    LET count == IF max > min THEN (max - min + step - 1) \div step ELSE 0
    IN [i \in 1..count |-> min + (i - 1) * step]

\* int(fraction * len(indices))
NAblated(fraction, n) == (fraction * n) \div Ticks

\* Variant of Ablated that takes the units from the end of the ranking.
AblatedFromEnd(indices, fraction) ==
    SubSeq(indices, Len(indices) - Min2(NAblated(fraction, Len(indices)), Len(indices)) + 1,
           Len(indices))

\* indices[:int(fraction * len(indices))]
Ablated(indices, fraction) ==
    SubSeq(indices, 1, Min2(NAblated(fraction, Len(indices)), Len(indices)))

NoLog ==
    [experiment |-> NoneStr, group |-> NoneStr, trial |-> 0, order |-> NoneStr,
     frac_ablated |-> 0, n_ablated |-> 0]

DrvIdle ==
    [pc |-> "idle", experimentsArg |-> None, groupsArg |-> None, orders |-> <<>>,
     min |-> 0, max |-> 0, step |-> 1, nRandomTrials |-> 0, nCaptions |-> 0,
     experiments |-> {}, ran |-> {}, experiment |-> NoneStr, trials |-> 0, trial |-> 0,
     scores |-> <<>>, oi |-> 0, indices |-> <<>>, fractions |-> <<>>, fi |-> 0,
     ablated |-> <<>>, units |-> <<>>, logged |-> NoLog]

\* The script up to the loop over experiments: the arguments are parsed, the
\* experiments chosen and the captions of the N units obtained.
DriverStart(experimentsArg, groupsArg, orders, min, max, step, nRandomTrials, nCaptions) ==
    /\ drv.pc = "idle"
    /\ drv' = [DrvIdle EXCEPT !.pc = "experiments", !.experimentsArg = experimentsArg,
                              !.groupsArg = groupsArg, !.orders = orders, !.min = min,
                              !.max = max, !.step = step,
                              !.nRandomTrials = nRandomTrials, !.nCaptions = nCaptions,
                              !.experiments =
                                  SelectExperiments(ExperimentsValue(experimentsArg), groupsArg)]
    /\ UNCHANGED <<fz, fwd, mp, clf, net, fit, lm, fac>>

\* The head of the loop over experiments: the next experiment and its
\* number of trials, or the end of the script.
DriverExperiment ==
    /\ drv.pc = "experiments"
    /\ IF drv.experiments \ drv.ran = {}
       THEN drv' = [drv EXCEPT !.pc = "done"]
       ELSE \E experiment \in NextExperiments(drv.experiments \ drv.ran) :
               drv' = [drv EXCEPT !.pc = "trial", !.experiment = experiment,
                                  !.ran = @ \cup {experiment},
                                  !.trials = IF experiment = "random" THEN drv.nRandomTrials
                                             ELSE 1,
                                  !.trial = 0]
    /\ UNCHANGED <<fz, fwd, mp, clf, net, fit, lm, fac>>

\* The head of the loop over trials: the scores of the units are computed
\* (whatever the captions and the random generator give), or the trials of
\* the experiment are over.
DriverTrial ==
    /\ drv.pc = "trial"
    /\ IF drv.trial >= drv.trials
       THEN drv' = [drv EXCEPT !.pc = "experiments"]
       ELSE \E scores \in [1..drv.nCaptions -> 0..MaxScore] :
               drv' = [drv EXCEPT !.pc = "order", !.scores = scores, !.oi = 0]
    /\ UNCHANGED <<fz, fwd, mp, clf, net, fit, lm, fac>>

\* The head of the loop over orders: the units are ranked and the fractions
\* laid out, or the orders of the trial are over.
DriverOrder ==
    /\ drv.pc = "order"
    /\ drv' = IF drv.oi >= Len(drv.orders)
              THEN [drv EXCEPT !.pc = "trial", !.trial = @ + 1]
              ELSE [drv EXCEPT !.pc = "fraction", !.oi = @ + 1,
                               !.indices = SortedIndices(drv.scores, drv.orders[drv.oi + 1]),
                               !.fractions = Fractions(drv.min, drv.max, drv.step),
                               !.fi = 0, !.ablated = <<>>, !.logged = NoLog]
    /\ UNCHANGED <<fz, fwd, mp, clf, net, fit, lm, fac>>

\* One pass of the loop over fractions: the units are sliced off the
\* ranking, the classifier is tested with them ablated and the step is
\* logged; or the fractions of the order are over.
DriverFraction ==
    /\ drv.pc = "fraction"
    /\ drv' = IF drv.fi >= Len(drv.fractions)
              THEN [drv EXCEPT !.pc = "order"]
              ELSE LET fraction == drv.fractions[drv.fi + 1]
                       ablated == Ablated(drv.indices, fraction)
                   IN [drv EXCEPT !.fi = @ + 1, !.ablated = ablated, !.units = ablated,
                                  !.logged = [experiment |-> drv.experiment,
                                              group |-> GROUPS_BY_EXPERIMENT[drv.experiment],
                                              trial |-> drv.trial + 1,
                                              order |-> drv.orders[drv.oi],
                                              frac_ablated |-> fraction,
                                              n_ablated |-> Len(ablated)]]
    /\ UNCHANGED <<fz, fwd, mp, clf, net, fit, lm, fac>>

(***************************************************************************)
(* Specifications.                                                         *)
(***************************************************************************)
Init ==
    /\ fz = Unbuilt
    /\ fwd = NoForward
    /\ mp = NoMap
    /\ clf = ClfIdle
    /\ net = NetIdle
    /\ fit = FitIdle
    /\ lm = LmUnbuilt
    /\ fac = FacIdle
    /\ drv = DrvIdle

\* The calls are guarded here as well as in the actions, so that their
\* inputs are enumerated only in the states that take them.
NextFeaturizer ==
    \/ /\ fz.state = "unbuilt"
       /\ \E config \in ConfigArgs : Construct(config)
    \/ /\ fz.state = "built" /\ fwd.op = "none" /\ mp.pc = "idle"
       /\ \E masks \in UNION {[1..n -> Masks] : n \in 0..MaxBatch} : Forward(masks)
    \/ /\ fz.state = "built" /\ fwd.op = "none" /\ mp.pc = "idle"
       /\ \E dataset \in Datasets, batchSize \in 1..MaxBatchSize, device \in Devices :
             MapCall(dataset, batchSize, device)
    \/ MapBatch
    \/ MapReturn

SpecFeaturizer == Init /\ [][NextFeaturizer]_vars

NextClassifier ==
    \/ /\ clf.pc = "idle"
       /\ \E dataset \in ClfDatasets, batchSize \in 1..MaxBatchSize, ablate \in AblateArgs :
             PredictCall(dataset, batchSize, ablate)
    \/ PredictBatch
    \/ PredictReturn
    \/ /\ clf.pc = "idle"
       /\ \E dataset \in ClfDatasets, batchSize \in 1..MaxBatchSize, ablate \in AblateArgs :
             AccuracyCall(dataset, None, batchSize, ablate)
    \/ /\ clf.pc = "idle"
       /\ \E dataset \in ClfDatasets, predictions \in PredictionArgs \ {None} :
             AccuracyCall(dataset, predictions, MaxBatchSize, None)
    \/ AccuracyReturn
    \/ /\ clf.pc = "idle"
       /\ \E dataset \in ClfDatasets, batchSize \in 1..MaxBatchSize, ablate \in AblateArgs :
             AccuraciesCall(dataset, None, batchSize, ablate)
    \/ /\ clf.pc = "idle"
       /\ \E dataset \in ClfDatasets, predictions \in PredictionArgs \ {None} :
             AccuraciesCall(dataset, predictions, MaxBatchSize, None)
    \/ AccuraciesReturn

SpecClassifier == Init /\ [][NextClassifier]_vars

\* fit of both models on every split, without a choice of layers; the
\* language model is constructed before it is fitted.
NextFit ==
    \/ /\ lm.state = "unbuilt" /\ fit.pc = "idle"
       /\ \E ix \in Indexers : LmConstruct(ix)
    \/ /\ fit.pc = "idle"
       /\ \E who \in Fitters, maxEpochs \in 0..MaxEpochs, patience \in 0..MaxPatience,
             nTrain \in 0..MaxLoaderLen, nVal \in 0..MaxLoaderLen :
             FitCall(who, maxEpochs, patience, nTrain, nVal, None, None)
    \/ TrainBatch
    \/ TrainEnd
    \/ ValBatch
    \/ EpochEnd

\* The interpreter runs the loop on: every step that can be taken is taken.
SpecFit == Init /\ [][NextFit]_vars /\ WF_vars(NextFit)

\* ImageClassifier.fit with a choice of layers, on splits that are not empty
NextFitLayers ==
    \/ /\ fit.pc = "idle"
       /\ \E layers \in LayerArgs \ {None}, maxEpochs \in 0..MaxEpochs,
             nTrain \in 1..MaxLoaderLen,
             ablate \in {None, Some(<<<<"layer4", 0>>>>)} :
             FitCall("ImageClassifier", maxEpochs, MaxPatience, nTrain, 1, layers, ablate)
    \/ TrainBatch
    \/ TrainEnd
    \/ ValBatch
    \/ EpochEnd

SpecFitLayers == Init /\ [][NextFitLayers]_vars

NextLm ==
    \/ /\ lm.state = "unbuilt"
       /\ \E ix \in Indexers : LmConstruct(ix)
    \/ /\ lm.state = "built" /\ lm.pc = "idle"
       /\ \E sequences \in SeqsUpTo(LmTexts, MaxDataset), batchSize \in 1..MaxBatchSize :
             LmPredictCall(sequences, batchSize)
    \/ LmPredictBatch
    \/ LmPredictReturn

SpecLm == Init /\ [][NextLm]_vars

\* The factory on every choice of indexer_kwargs
NextFactory ==
    /\ fac.pc = "idle" /\ lm.state = "unbuilt"
    /\ \E words \in 0..MaxVocab, arg \in KwargArgs : LmFactory(words, arg)

SpecFactory == Init /\ [][NextFactory]_vars

\* The steps of the driver once its arguments are parsed
DriverSteps ==
    \/ DriverExperiment
    \/ DriverTrial
    \/ DriverOrder
    \/ DriverFraction

\* The driver on every range of fractions and every order, for a random and
\* a syntactic experiment
NextDriver ==
    \/ /\ drv.pc = "idle"
       /\ \E orders \in {<<"decreasing">>, <<"increasing">>, <<"decreasing", "increasing">>},
             min \in 0..Ticks, max \in 0..Ticks, step \in 1..Ticks :
             /\ min <= max
             /\ DriverStart(Some(<<"random", "n-nouns">>), None, orders, min, max, step,
                            MaxTrials, MaxUnits)
    \/ DriverSteps

SpecDriver == Init /\ [][NextDriver]_vars

\* The driver on every choice of --experiments and --groups, with one unit
\* and the default order
NextDriverSelect ==
    \/ /\ drv.pc = "idle"
       /\ \E experimentsArg \in {None, Some(<<"random">>), Some(<<"n-nouns", "car">>),
                                  Some(<<"parse-depth">>)},
             groupsArg \in {None, Some(<<"random">>), Some(<<"syntactic">>),
                            Some(<<"structural", "random">>), Some(<<"semantic">>)} :
             DriverStart(experimentsArg, groupsArg, <<"decreasing">>, 0, Ticks, Ticks,
                         MaxTrials, 1)
    \/ DriverSteps

SpecDriverSelect == Init /\ [][NextDriverSelect]_vars

(***************************************************************************)
(* Properties of the featurizer.                                           *)
(***************************************************************************)
\* The features of one image under one mask, computed on its own: zeros for
\* an empty mask, else the pooled activations of every retained layer.
ExpectedRow(config, image, mask) ==
    IF \A p \in 1..Len(mask) : mask[p] = 0
    THEN <<[n |-> ConfigFeatureSize(config), v |-> Zero]>>
    ELSE Flatten([k \in 1..Len(ConfigLayers(config)) |->
                     <<[n |-> Channels(config, k), v |-> MaskedPool(config, k, image, mask)]>>])

IsZeroMask(mask) == \A p \in 1..Len(mask) : mask[p] = 0

MixedMasks(masks) ==
    /\ \E i \in 1..Len(masks) : IsZeroMask(masks[i])
    /\ \E i \in 1..Len(masks) : ~IsZeroMask(masks[i])

\* C1: forward on a batch with some empty and some non-empty masks returns a
\* result whose rows of empty masks are zero and whose other rows hold the
\* pooled features of the image at that same batch position.
C1_MixedMasksScattered ==
    (fwd.op = "forward" /\ MixedMasks(fwd.masks)) =>
        /\ fwd.status = "returned"
        /\ Len(fwd.result) = Len(fwd.masks)
        /\ \A i \in 1..Len(fwd.masks) :
              /\ IsZeroMask(fwd.masks[i]) => VecIsZero(fwd.result[i])
              /\ fwd.result[i] = ExpectedRow(fz.config, fwd.images[i], fwd.masks[i])

\* C2: forward never divides by zero and never returns NaN: a mask that is
\* not empty has a non-zero sum once resampled to any retained layer.
C2_NoNaN ==
    fwd.op = "forward" =>
        /\ \A i \in 1..Len(fwd.masks) : \A k \in 1..Len(fz.layers) :
              ~IsZeroMask(fwd.masks[i]) =>
                  SumSeq(Interpolate(fwd.masks[i],
                                     LayerSize(fz.config, k, Len(fwd.masks[i])))) # 0
        /\ fwd.status = "returned" =>
              \A i \in 1..Len(fwd.result) : ~VecHasNaN(fwd.result[i])

\* C3: when every mask of the batch is empty, forward returns the all-zero
\* tensor of shape (batch_size, feature_size) without running the network:
\* no run is counted and no activation is retained.
C3_AllInvalidReturnsZeros ==
    (fwd.op = "forward" /\ \A i \in 1..Len(fwd.masks) : IsZeroMask(fwd.masks[i])) =>
        /\ fwd.status = "returned"
        /\ Len(fwd.result) = Len(fwd.images)
        /\ \A i \in 1..Len(fwd.result) :
              /\ VecLen(fwd.result[i]) = ConfigFeatureSize(fz.config)
              /\ VecIsZero(fwd.result[i])
        /\ fz.netRuns = 0
        /\ fz.retained = {}

C3_Witness ==
    /\ fwd.op = "forward"
    /\ Len(fwd.masks) = MaxBatch
    /\ \A i \in 1..Len(fwd.masks) : IsZeroMask(fwd.masks[i])
    /\ fwd.status = "returned"

\* C4: for both configs and every batch, forward returns a tensor of shape
\* (batch_size, feature_size), feature_size the size the config declares,
\* whatever number of masks are valid.
C4_ResultShape ==
    fwd.op = "forward" =>
        /\ fwd.status = "returned"
        /\ Len(fwd.result) = Len(fwd.images)
        /\ \A i \in 1..Len(fwd.result) :
              VecLen(fwd.result[i]) = ConfigFeatureSize(fz.config)

AllTensors(dataset) == \A i \in 1..Len(dataset) : dataset[i].imageT /\ dataset[i].maskT

\* C5: map returns one feature entry per sample of the dataset, in dataset
\* order, for every batch size and device: entry i is the features of the
\* image and mask of sample i.
C5_MapOneEntryPerSample ==
    (mp.pc \in {"returned", "raised"} /\ AllTensors(mp.dataset)) =>
        /\ mp.pc = "returned"
        /\ Len(mp.result) = Len(mp.dataset)
        /\ \A i \in 1..Len(mp.dataset) :
              mp.result[i] = ExpectedRow(fz.config, mp.dataset[i].image, mp.dataset[i].mask)

\* The collated entries of the batch map is about to read
NextImages ==
    Collate([i \in 1..Len(BatchOf(mp.dataset, mp.next, mp.batchSize)) |->
                BatchOf(mp.dataset, mp.next, mp.batchSize)[i].imageT])
NextMasks ==
    Collate([i \in 1..Len(BatchOf(mp.dataset, mp.next, mp.batchSize)) |->
                BatchOf(mp.dataset, mp.next, mp.batchSize)[i].maskT])

\* C6: when the images entry or the masks entry of the batch map reads next
\* is not a tensor, that step raises ValueError (about the images when both
\* are not), forward is not called on the batch and the featurizer is left
\* as it was; a map that raised never holds a result.
C6_NonTensorRaises ==
    /\ [](mp.pc = "raised" => mp.result = <<>>)
    /\ [][(/\ mp.pc = "loop" /\ mp.next < Len(mp.dataset)
           /\ "TypeError" \notin {NextImages, NextMasks}
           /\ "list" \in {NextImages, NextMasks})
          => /\ mp'.pc = "raised"
             /\ mp'.error[1] = "ValueError"
             /\ mp'.error[2] = (IF NextImages = "list" THEN "non-tensor images: "
                                ELSE "non-tensor masks: ")
             /\ mp'.forwardCalls = mp.forwardCalls
             /\ mp'.mapped = mp.mapped
             /\ fz' = fz]_vars

C6_Witness ==
    /\ mp.pc = "raised"
    /\ mp.error[1] = "ValueError"
    /\ mp.error[2] = "non-tensor images: "
    /\ mp.forwardCalls >= 1
    /\ \E i \in 1..Len(mp.dataset) : ~mp.dataset[i].imageT /\ ~mp.dataset[i].maskT

\* C7: __init__ with a config that configs() does not hold raises a
\* ValueError whose message contains the config name, with no classifier
\* constructed and no layer instrumented.
C7_BadConfigRaises ==
    (fz.state # "unbuilt" /\ fz.arg \notin ConfigNames) =>
        /\ fz.state = "failed"
        /\ fz.error[1] = "ValueError"
        /\ \E k \in 2..Len(fz.error) : fz.error[k] = fz.arg
        /\ fz.factoryCalls = 0
        /\ ~fz.instrumented
        /\ fz.netRuns = 0

C7_Witness == fz.state = "failed" /\ fz.arg = "bad-config"

(***************************************************************************)
(* Properties of the classifier.                                           *)
(***************************************************************************)
\* The units a call asked to ablate, as a set: none for ablate=None
Requested(ablate) ==
    IF ablate.some THEN {ablate.v[i] : i \in 1..Len(ablate.v)} ELSE {}

\* C8: predict returns a tensor of shape (len(dataset),) whose entry i is
\* the argmax of the output of the (ablated) model for item i, for every
\* batch size.
C8_PredictOnePerItem ==
    (clf.op = "predict" /\ clf.pc \in {"returned", "raised"}) =>
        /\ clf.pc = "returned"
        /\ Len(clf.result.v) = Len(clf.dataset)
        /\ \A i \in 1..Len(clf.dataset) :
              clf.result.v[i] = Argmax(clf.dataset[i].image, Requested(clf.ablate))

\* C9: every forward pass of predict is made inside the ablation context
\* with exactly the requested units zeroed (none for ablate=None, as for an
\* empty list); the context is open throughout the loop, every batch passes
\* through it in order, and it is closed and the model restored afterwards.
C9_ForwardsAblated ==
    /\ \A b \in 1..Len(net.forwards) :
          /\ net.forwards[b].ablated = Requested(clf.ablate)
          /\ net.forwards[b].ctx = 1
    /\ clf.pc = "loop" =>
          /\ net.ctx = 1
          /\ net.ablated = Requested(clf.ablate)
          /\ Flatten([b \in 1..Len(net.forwards) |-> net.forwards[b].items])
                = [i \in 1..clf.next |-> i]
    /\ clf.pc # "loop" =>
          /\ net.ctx = 0
          /\ net.ablated = {}
          /\ clf.predictCalls = 1 =>
                Flatten([b \in 1..Len(net.forwards) |-> net.forwards[b].items])
                   = [i \in 1..Len(clf.dataset) |-> i]

C9_Witness ==
    /\ clf.op = "predict" /\ clf.pc = "returned"
    /\ Len(net.forwards) >= 2
    /\ Requested(clf.ablate) # {}
    /\ net.ablated = {}

\* The predictions accuracy scores: the ones handed in, else predict's
ScoredPredictions == IF clf.given.some THEN clf.given.v ELSE clf.result.v

\* The number of dataset items whose prediction equals their target
Hits ==
    Cardinality({i \in 1..Len(clf.dataset) :
                    i <= Len(ScoredPredictions) /\ ScoredPredictions[i] = clf.dataset[i].target})

WellFormedAccuracy ==
    /\ Len(clf.dataset) > 0
    /\ clf.given.some => Len(clf.given.v) = Len(clf.dataset)

TargetClasses == {clf.dataset[i].target : i \in 1..Len(clf.dataset)}

\* C11: accuracies returns a mapping whose keys are exactly the classes that
\* occur as a target in the dataset, each mapped to (items of that class
\* predicted as that class) / (items of that class), a value in [0, 1], a
\* class with no correct prediction included; the assertion on the keys of
\* correct and total never fails.
C11_AccuraciesAsStated ==
    (clf.op = "accuracies" /\ clf.pc \in {"returned", "raised"}) =>
        /\ clf.pc = "returned"
        /\ DOMAIN clf.byClass = TargetClasses
        /\ \A t \in TargetClasses :
              /\ clf.byClass[t].num =
                    Cardinality({i \in 1..Len(clf.dataset) :
                                    /\ clf.dataset[i].target = t
                                    /\ i <= Len(ScoredPredictions)
                                    /\ ScoredPredictions[i] = t})
              /\ clf.byClass[t].den =
                    Cardinality({i \in 1..Len(clf.dataset) : clf.dataset[i].target = t})
              /\ 0 <= clf.byClass[t].num /\ clf.byClass[t].num <= clf.byClass[t].den
              /\ clf.byClass[t].den > 0

(***************************************************************************)
(* Properties of fit.                                                      *)
(***************************************************************************)
\* What holds of the training loop at every moment: no epoch beyond
\* max_epochs, every finished epoch one full training pass followed by one
\* full validation pass, no early exit without a report of the stopper, and
\* after the report nothing but the return.
FitLoopBounded ==
    /\ fit.epoch <= fit.maxEpochs \/ fit.maxEpochs < 0
    /\ fit.pc \in {"train", "val"} => fit.epoch < fit.maxEpochs
    /\ fit.pc = "train" =>
          /\ fit.trainBatches = fit.epoch * fit.nTrain + fit.batch
          /\ fit.valBatches = fit.epoch * fit.nVal
    /\ fit.pc = "val" =>
          /\ fit.trainBatches = (fit.epoch + 1) * fit.nTrain
          /\ fit.valBatches = fit.epoch * fit.nVal + fit.batch
    /\ fit.pc = "returned" =>
          /\ fit.trainBatches = fit.epoch * fit.nTrain
          /\ fit.valBatches = fit.epoch * fit.nVal
          /\ fit.steps = fit.trainBatches
          /\ ~fit.reported => fit.epoch = fit.maxEpochs
    /\ (fit.epoch > 0 /\ fit.pc \in {"train", "val"}) => ~StopperReports(fit.stopper)
    /\ fit.reported =>
          /\ fit.pc = "returned"
          /\ fit.epoch > 0 /\ StopperReports(fit.stopper)
          /\ fit.steps = fit.stepsAtReport

\* C12: fit of either model always ends; it runs at most max_epochs epochs,
\* each a full training pass followed by a full validation pass, stops at
\* the end of the first epoch at which the early-stopping check reports, and
\* takes no optimizer step after that epoch.
C12_FitTerminates ==
    /\ [](FitLoopBounded)
    /\ [][fit.reported => fit'.steps = fit.steps]_vars
    /\ <>(fit.pc \in {"returned", "raised"})

C12_Witness ==
    /\ fit.pc = "returned" /\ fit.reported
    /\ fit.epoch >= 2 /\ fit.epoch < fit.maxEpochs
    /\ fit.steps >= 2

\* The names fit was asked for, and those of them that name no module
RequestedLayers == {fit.layers.v[i] : i \in 1..Len(fit.layers.v)}

UnmatchedLayers ==
    {name \in RequestedLayers : \A j \in 1..Len(NamedModules) : NamedModules[j] # name}

\* The position of a layer name in lexicographic order
Rank(name) == CHOOSE k \in 1..Len(LayerNames) : LayerNames[k] = name

\* C13: fit with `layers` given steps only the parameters of the modules
\* named in `layers`; when some requested name matches no module it raises
\* KeyError listing exactly those names, sorted, before any training step,
\* with every parameter as it was.
C13_LayersOnly ==
    (fit.who = "ImageClassifier" /\ fit.layers.some) =>
        /\ UnmatchedLayers # {} =>
              /\ fit.pc = "raised"
              /\ fit.error[1] = "KeyError"
              /\ {fit.error[3][i] : i \in 1..Len(fit.error[3])} = UnmatchedLayers
              /\ \A i, j \in 1..Len(fit.error[3]) :
                    i < j => Rank(fit.error[3][i]) < Rank(fit.error[3][j])
              /\ fit.steps = 0
              /\ \A p \in DOMAIN fit.weights : fit.weights[p] = 0
        /\ UnmatchedLayers = {} =>
              /\ fit.error = <<>> \/ fit.error[1] # "KeyError"
              /\ \A p \in DOMAIN fit.weights :
                    fit.weights[p] =
                       (IF \E name \in RequestedLayers : p \in ParametersOf(name)
                        THEN fit.steps ELSE 0)

C13_Witness ==
    /\ fit.pc = "raised" /\ fit.error # <<>> /\ fit.error[1] = "KeyError"
    /\ Len(fit.error[3]) = 2
    /\ fit.layers.v[1] = "layerX" /\ fit.layers.v[2] = "conv9"

(***************************************************************************)
(* Properties of the language model.                                       *)
(***************************************************************************)
\* The log-probability of one text on its own: its tokens followed by stop,
\* each scored after start and the tokens before it.
OwnLogProb(ix, text) ==
    LET own == IndexText(ix, text, TRUE, FALSE)
        target == IndexText(ix, text, FALSE, TRUE)
    IN SumSeq([i \in 1..Len(target) |-> LogProb(SubSeq(own, 1, i), target[i])])

\* C14: predict returns one value per input sequence, in input order: exp of
\* the sum, over the positions of the sequence's own unpadded target, of the
\* log-probability at that position given start and the sequence's tokens;
\* padding adds nothing.
C14_PredictOwnLogProb ==
    /\ lm.pc # "raised"
    /\ lm.pc = "loop" =>
          /\ Len(lm.logprobs) = lm.next
          /\ \A j \in 1..Len(lm.logprobs) :
                lm.logprobs[j] = OwnLogProb(lm.indexer, lm.sequences[j])
    /\ lm.pc = "returned" =>
          /\ ~lm.training
          /\ Len(lm.result) = Len(lm.sequences)
          /\ \A j \in 1..Len(lm.sequences) :
                lm.result[j] = Exp(OwnLogProb(lm.indexer, lm.sequences[j]))

\* A batch that pads its first sequence was scored
C14_Witness ==
    /\ lm.pc = "returned"
    /\ Len(lm.sequences) = MaxDataset
    /\ lm.batchSize = 2
    /\ Len(lm.sequences[1]) < Len(lm.sequences[2])
    /\ lm.indexer.n = MaxVocab

\* C20: an indexer over n tokens gives start, stop, pad and unk the indices
\* n, n+1, n+2 and n+3, none of them a vocabulary index 0..n-1, and has
\* length n + 4; so the language model is always constructed, its padding
\* index is a row of its embedding of len(indexer) rows, and the index its
\* loss ignores is that same pad index, never a vocabulary token.
C20_SpecialsAfterVocab ==
    /\ lm.state # "failed"
    /\ lm.state = "built" =>
          LET n == lm.indexer.n
          IN /\ StartIndex(lm.indexer) = n /\ StopIndex(lm.indexer) = n + 1
             /\ PadIndex(lm.indexer) = n + 2 /\ UnkIndex(lm.indexer) = n + 3
             /\ DOMAIN Specials(lm.indexer) \cap 0..(n - 1) = {}
             /\ Cardinality(DOMAIN Specials(lm.indexer)) = 4
             /\ IndexerLen(lm.indexer) = n + 4
             /\ lm.embeddingRows = n + 4
             /\ lm.paddingIdx = n + 2
             /\ lm.paddingIdx \in 0..(lm.embeddingRows - 1)
             /\ lm.paddingIdx \notin 0..(n - 1)
    /\ (fit.who = "LanguageModel" /\ fit.pc # "idle") =>
          /\ fit.ignoreIndex = lm.paddingIdx
          /\ fit.ignoreIndex \in 0..(lm.outputSize - 1)
          /\ fit.ignoreIndex \notin 0..(lm.indexer.n - 1)

C20_Witness ==
    /\ lm.state = "built" /\ lm.indexer.n = MaxVocab
    /\ fit.who = "LanguageModel" /\ fit.pc = "returned" /\ fit.steps > 0
    /\ fit.ignoreIndex = MaxVocab + 2

\* What the caller passed as indexer_kwargs: nothing for None
GivenKwargs == IF fac.arg.some THEN fac.arg.v ELSE EmptyDict

\* C15: lm() builds the indexer with start, stop, pad and unk enabled and a
\* tokenizer that neither lemmatizes nor ignores stop words or punctuation,
\* except for the keys the caller's indexer_kwargs sets, whose values are
\* passed on as they are; the caller's mapping is left as it was.
C15_FactoryDefaults ==
    fac.pc = "returned" =>
        /\ DOMAIN fac.passed = DOMAIN GivenKwargs \cup FlagKeys \cup {"tokenize"}
        /\ \A key \in FlagKeys :
              fac.passed[key] = (IF key \in DOMAIN GivenKwargs THEN GivenKwargs[key] ELSE TRUE)
        /\ fac.passed["tokenize"] =
              (IF "tokenize" \in DOMAIN GivenKwargs THEN GivenKwargs["tokenize"]
               ELSE [lemmatize |-> FALSE, ignore_stop |-> FALSE, ignore_punct |-> FALSE])
        /\ fac.arg.some => fac.heap[CallerDict] = fac.arg.v

C15_Witness ==
    /\ fac.pc = "returned" /\ fac.arg.some
    /\ DOMAIN fac.arg.v = {"pad"} /\ ~fac.arg.v["pad"]
    /\ ~fac.passed["pad"] /\ fac.passed["start"]
    /\ ~fac.passed["tokenize"].lemmatize

(***************************************************************************)
(* Properties of the ablation driver.                                      *)
(***************************************************************************)
\* The score of a unit
ScoreOf(unit) == drv.scores[unit + 1]

AblatedUnits == {drv.ablated[i] : i \in 1..Len(drv.ablated)}

\* C16: at every ablation step the units ablated are the first
\* int(f * N) entries of the ranking of all N units by score; under
\* 'decreasing' no ablated unit scores below a unit that is not ablated,
\* and under 'increasing' none scores above one.
C16_SortAndSlice ==
    (drv.pc = "fraction" /\ drv.fi > 0) =>
        LET n == drv.nCaptions
            order == drv.orders[drv.oi]
            k == NAblated(drv.logged.frac_ablated, n)
        IN /\ Len(drv.indices) = n
           /\ {drv.indices[i] : i \in 1..n} = 0..(n - 1)
           /\ \A i, j \in 1..n :
                 i < j => IF order = "decreasing"
                          THEN ScoreOf(drv.indices[i]) >= ScoreOf(drv.indices[j])
                          ELSE ScoreOf(drv.indices[i]) <= ScoreOf(drv.indices[j])
           /\ Len(drv.ablated) = k
           /\ \A i \in 1..k : drv.ablated[i] = drv.indices[i]
           /\ drv.units = drv.ablated
           /\ \A a \in AblatedUnits : \A u \in (0..(n - 1)) \ AblatedUnits :
                 IF order = "decreasing" THEN ScoreOf(a) >= ScoreOf(u)
                 ELSE ScoreOf(a) <= ScoreOf(u)

C16_Witness ==
    /\ drv.pc = "fraction" /\ drv.fi > 0
    /\ drv.orders[drv.oi] = "decreasing"
    /\ Len(drv.ablated) = 2 /\ drv.nCaptions = MaxUnits
    /\ ScoreOf(0) < ScoreOf(MaxUnits - 1)
    /\ drv.experiment = "n-nouns"

\* C17: within one experiment, trial and order the fractions are visited in
\* increasing order, the units ablated at one step are a prefix of the same
\* ranking and of the units ablated at the next step, and the logged
\* n_ablated is int(fraction * N) and never decreases.
C17_Incremental ==
    /\ []((drv.pc = "fraction" /\ drv.fi > 0) =>
             /\ drv.logged.n_ablated = NAblated(drv.logged.frac_ablated, drv.nCaptions)
             /\ drv.logged.n_ablated = Len(drv.ablated)
             /\ drv.ablated = SubSeq(drv.indices, 1, Len(drv.ablated)))
    /\ [][(drv.pc = "fraction" /\ drv.fi > 0 /\ drv'.pc = "fraction" /\ drv'.fi > drv.fi) =>
             /\ drv'.logged.experiment = drv.logged.experiment
             /\ drv'.logged.trial = drv.logged.trial
             /\ drv'.logged.order = drv.logged.order
             /\ drv'.indices = drv.indices
             /\ drv'.logged.frac_ablated > drv.logged.frac_ablated
             /\ drv'.logged.n_ablated >= drv.logged.n_ablated
             /\ Len(drv'.ablated) >= Len(drv.ablated)
             /\ SubSeq(drv'.ablated, 1, Len(drv.ablated)) = drv.ablated]_vars

C17_Witness ==
    /\ drv.pc = "fraction" /\ drv.fi >= 3
    /\ drv.logged.n_ablated >= 2
    /\ drv.logged.order = "increasing"
    /\ drv.logged.trial = MaxTrials

\* C18: the fractions run from --ablation-min, tested first, to
\* --ablation-max in steps of --ablation-step-size: when max - min is a whole
\* number of steps the largest fraction tested is --ablation-max, and no step
\* ablates more than --ablation-max of the units.
C18_FractionsReachMax ==
    (drv.pc = "fraction" /\ drv.max > drv.min) =>
        /\ Len(drv.fractions) > 0
        /\ drv.fractions[1] = drv.min
        /\ \A i \in 1..(Len(drv.fractions) - 1) :
              drv.fractions[i + 1] = drv.fractions[i] + drv.step
        /\ \A i \in 1..Len(drv.fractions) : drv.fractions[i] <= drv.max
        /\ drv.fi > 0 => drv.logged.n_ablated * Ticks <= drv.max * drv.nCaptions
        /\ (drv.max - drv.min) % drv.step = 0 =>
              drv.fractions[Len(drv.fractions)] = drv.max

\* The experiments --groups names
GroupExperiments ==
    UNION {EXPERIMENTS_BY_GROUP[drv.groupsArg.v[i]] : i \in 1..Len(drv.groupsArg.v)}

\* The experiments --experiments names explicitly: none when it is absent
ExplicitExperiments ==
    IF drv.experimentsArg.some
    THEN {drv.experimentsArg.v[i] : i \in 1..Len(drv.experimentsArg.v)}
    ELSE {}

\* C19: with --groups the experiments run are those of the named groups and
\* those named explicitly with --experiments; without --groups they are
\* exactly those set by --experiments (every experiment by default).
C19_GroupsSelect ==
    drv.pc # "idle" =>
        LET expected == IF drv.groupsArg.some
                        THEN GroupExperiments \cup ExplicitExperiments
                        ELSE {ExperimentsValue(drv.experimentsArg)[i] :
                                 i \in 1..Len(ExperimentsValue(drv.experimentsArg))}
        IN /\ drv.ran \subseteq expected
           /\ drv.pc = "done" => drv.ran = expected

====
